---- MODULE Spec2Model ----
(***************************************************************************)
(* Calendar-feed ingestion of FamilyCalendar: the iCal parser              *)
(* (src/utils/icalParser.ts), the event store reducer (AppContext) and the *)
(* refresh / reconciliation policy of WeeklyView and ICalImportModal.      *)
(*                                                                         *)
(* Strings are TLA+ strings; a character is a string of length 1.          *)
(* An optional JavaScript value (undefined | v) is a sequence of length    *)
(* at most one: << >> is undefined, <<v>> is v.                            *)
(***************************************************************************)
EXTENDS Integers, Sequences, FiniteSets, TLC

(***************************************************************************)
(* String primitives of the JavaScript runtime used by the parser.         *)
(***************************************************************************)
CharAt(s, k) == SubSeq(s, k, k)

Digits == {"0", "1", "2", "3", "4", "5", "6", "7", "8", "9"}

IsDigit(c) == c \in Digits

DigitVal(c) ==
  CASE c = "0" -> 0 [] c = "1" -> 1 [] c = "2" -> 2 [] c = "3" -> 3
    [] c = "4" -> 4 [] c = "5" -> 5 [] c = "6" -> 6 [] c = "7" -> 7
    [] c = "8" -> 8 [] c = "9" -> 9

AllDigits(s) == \A k \in 1..Len(s) : IsDigit(CharAt(s, k))

RECURSIVE ToInt(_)
ToInt(s) ==
  IF Len(s) = 0 THEN 0
  ELSE 10 * ToInt(SubSeq(s, 1, Len(s) - 1)) + DigitVal(CharAt(s, Len(s)))

\* String.prototype.startsWith
StartsWith(s, p) == Len(s) >= Len(p) /\ SubSeq(s, 1, Len(p)) = p

\* String.prototype.substring(from) with a 0-based index
SubstringFrom(s, from) == SubSeq(s, from + 1, Len(s))

\* String.prototype.substring(from, to) with 0-based indices, to exclusive
Substring(s, from, to) == SubSeq(s, from + 1, to)

\* String.prototype.includes for a one-character needle
Includes(s, c) == \E k \in 1..Len(s) : CharAt(s, k) = c

WhiteSpace == {" ", "\t", "\r", "\n", "\f"}

\* String.prototype.trim
Trim(s) ==
  LET keep == {k \in 1..Len(s) : CharAt(s, k) \notin WhiteSpace}
  IN  IF keep = {} THEN ""
      ELSE LET lo == CHOOSE k \in keep : \A j \in keep : k <= j
               hi == CHOOSE k \in keep : \A j \in keep : k >= j
           IN  SubSeq(s, lo, hi)

\* String.prototype.split('\n'): the pieces between line feeds, in order
RECURSIVE SplitLines(_)
SplitLines(s) ==
  LET nl == {k \in 1..Len(s) : CharAt(s, k) = "\n"}
  IN  IF nl = {} THEN <<s>>
      ELSE LET k == CHOOSE x \in nl : \A y \in nl : x <= y
           IN  <<SubSeq(s, 1, k - 1)>> \o SplitLines(SubSeq(s, k + 1, Len(s)))

\* s.replace(/\\c/g, c): every backslash followed by c becomes c
RECURSIVE ReplaceEscaped(_, _)
ReplaceEscaped(s, c) ==
  IF Len(s) < 2 THEN s
  ELSE IF SubSeq(s, 1, 2) = "\\" \o c
       THEN c \o ReplaceEscaped(SubSeq(s, 3, Len(s)), c)
       ELSE CharAt(s, 1) \o ReplaceEscaped(SubSeq(s, 2, Len(s)), c)

KeptEscapes(s) == s

\* .replace(/\\,/g, ',').replace(/\\;/g, ';').replace(/\\\\/g, '\\')
Unescape(s) == ReplaceEscaped(ReplaceEscaped(ReplaceEscaped(s, ","), ";"), "\\")

(***************************************************************************)
(* Date: a JavaScript Date is [valid, day, ms], day the number of days     *)
(* since 1970-01-01 and ms the millisecond within that day (getTime() is   *)
(* day * 86400000 + ms, kept as a pair to stay inside TLC's integers).     *)
(***************************************************************************)
MsPerDay == 86400000

InvalidDate == [valid |-> FALSE, day |-> 0, ms |-> 0]

IsLeap(y) == (y % 4 = 0 /\ y % 100 # 0) \/ y % 400 = 0

DaysInMonth(y, m) ==
  IF m = 2 THEN (IF IsLeap(y) THEN 29 ELSE 28)
  ELSE IF m \in {4, 6, 9, 11} THEN 30 ELSE 31

\* days from 1970-01-01 to the civil date y-m-d (proleptic Gregorian)
DaysFromCivil(y, m, d) ==
  LET yy  == IF m <= 2 THEN y - 1 ELSE y
      era == yy \div 400
      yoe == yy - era * 400
      mp  == IF m > 2 THEN m - 3 ELSE m + 9
      doy == (153 * mp + 2) \div 5 + d - 1
      doe == yoe * 365 + yoe \div 4 - yoe \div 100 + doy
  IN  era * 146097 + doe - 719468

MakeDate(y, m, d, hh, mi, ss) ==
  IF m \in 1..12 /\ d \in 1..DaysInMonth(y, m) /\ hh \in 0..23 /\ mi \in 0..59 /\ ss \in 0..59
  THEN [valid |-> TRUE, day |-> DaysFromCivil(y, m, d),
        ms |-> ((hh * 60 + mi) * 60 + ss) * 1000]
  ELSE InvalidDate

\* new Date(str) for the two shapes the parser hands it: YYYY-MM-DD (UTC
\* midnight) and YYYY-MM-DDTHH:MM:SSZ; any other string is an Invalid Date.
NewDate(str) ==
  LET dateOk == /\ Len(str) >= 10
                /\ AllDigits(SubSeq(str, 1, 4)) /\ CharAt(str, 5) = "-"
                /\ AllDigits(SubSeq(str, 6, 7)) /\ CharAt(str, 8) = "-"
                /\ AllDigits(SubSeq(str, 9, 10))
      timeOk == /\ Len(str) = 20
                /\ CharAt(str, 11) = "T"
                /\ AllDigits(SubSeq(str, 12, 13)) /\ CharAt(str, 14) = ":"
                /\ AllDigits(SubSeq(str, 15, 16)) /\ CharAt(str, 17) = ":"
                /\ AllDigits(SubSeq(str, 18, 19)) /\ CharAt(str, 20) = "Z"
      y == ToInt(SubSeq(str, 1, 4))
      m == ToInt(SubSeq(str, 6, 7))
      d == ToInt(SubSeq(str, 9, 10))
  IN  IF dateOk /\ Len(str) = 10 THEN MakeDate(y, m, d, 0, 0, 0)
      ELSE IF dateOk /\ timeOk
           THEN MakeDate(y, m, d, ToInt(SubSeq(str, 12, 13)),
                         ToInt(SubSeq(str, 15, 16)), ToInt(SubSeq(str, 18, 19)))
           ELSE InvalidDate

\* new Date(date.getTime() + n); NaN + n is NaN
AddMs(date, n) ==
  IF ~date.valid THEN InvalidDate
  ELSE LET t == date.ms + n
       IN  [valid |-> TRUE, day |-> date.day + t \div MsPerDay, ms |-> t % MsPerDay]

(***************************************************************************)
(* icalParser.ts                                                           *)
(***************************************************************************)
CharOrNone(s, k) == IF k >= 1 /\ k <= Len(s) THEN CharAt(s, k) ELSE ""

\* the longest run of at most max digits of s that starts at position k
RECURSIVE DigitRun(_, _, _)
DigitRun(s, k, max) ==
  IF max > 0 /\ IsDigit(CharOrNone(s, k))
  THEN CharAt(s, k) \o DigitRun(s, k + 1, max - 1)
  ELSE ""

\* line.match(/(\d{8}T?\d{0,6}Z?)/): the leftmost, greedy match, "" when the
\* match is null
MatchDateToken(line) ==
  LET starts == {p \in 1..(Len(line) - 7) : AllDigits(SubSeq(line, p, p + 7))}
  IN  IF starts = {} THEN ""
      ELSE LET p    == CHOOSE x \in starts : \A y \in starts : x <= y
               tee  == IF CharOrNone(line, p + 8) = "T" THEN "T" ELSE ""
               time == DigitRun(line, p + 8 + Len(tee), 6)
               zed  == IF CharOrNone(line, p + 8 + Len(tee) + Len(time)) = "Z"
                       THEN "Z" ELSE ""
           IN  SubSeq(line, p, p + 7) \o tee \o time \o zed

IsoAt(line, p) ==
  /\ p + 18 <= Len(line)
  /\ AllDigits(SubSeq(line, p, p + 3)) /\ CharAt(line, p + 4) = "-"
  /\ AllDigits(SubSeq(line, p + 5, p + 6)) /\ CharAt(line, p + 7) = "-"
  /\ AllDigits(SubSeq(line, p + 8, p + 9)) /\ CharAt(line, p + 10) = "T"
  /\ AllDigits(SubSeq(line, p + 11, p + 12)) /\ CharAt(line, p + 13) = ":"
  /\ AllDigits(SubSeq(line, p + 14, p + 15)) /\ CharAt(line, p + 16) = ":"
  /\ AllDigits(SubSeq(line, p + 17, p + 18))

\* line.match(/(\d{4}-\d{2}-\d{2}T\d{2}:\d{2}:\d{2})/), "" when null
MatchIso(line) ==
  LET starts == {p \in 1..Len(line) : IsoAt(line, p)}
  IN  IF starts = {} THEN ""
      ELSE LET p == CHOOSE x \in starts : \A y \in starts : x <= y
           IN  SubSeq(line, p, p + 18)

extractDateOnly(line) ==
  LET dateStr == MatchDateToken(line)
  IN  IF dateStr # ""
      THEN Substring(dateStr, 0, 4) \o "-" \o Substring(dateStr, 4, 6) \o "-"
             \o Substring(dateStr, 6, 8)
      ELSE ""

\* extractDateFromLine: the date string, or "" for null
extractDateFromLine(line) ==
  LET dateStr == MatchDateToken(line)
      isoMatch == MatchIso(line)
  IN  IF dateStr # "" /\ Len(dateStr) = 15 /\ Includes(dateStr, "T")
      THEN Substring(dateStr, 0, 4) \o "-" \o Substring(dateStr, 4, 6) \o "-"
             \o Substring(dateStr, 6, 8) \o "T" \o Substring(dateStr, 9, 11) \o ":"
             \o Substring(dateStr, 11, 13) \o ":" \o Substring(dateStr, 13, 15) \o "Z"
      ELSE IF dateStr # "" /\ Len(dateStr) = 8
      THEN Substring(dateStr, 0, 4) \o "-" \o Substring(dateStr, 4, 6) \o "-"
             \o Substring(dateStr, 6, 8)
      ELSE IF isoMatch # "" THEN isoMatch \o "Z"
      ELSE ""

\* currentEvent = {}: a Partial<ICalEvent> with every field undefined
EmptyICalEvent ==
  [summary |-> << >>, start |-> << >>, end |-> << >>, description |-> << >>,
   location |-> << >>, allDay |-> << >>]

parseEventPropertyUnguarded(line, event) ==
  IF StartsWith(line, "SUMMARY:")
  THEN [event EXCEPT !.summary = <<Unescape(SubstringFrom(line, 8))>>]
  ELSE IF StartsWith(line, "DTSTART")
  THEN LET dateStr == extractDateFromLine(line)
       IN  [event EXCEPT !.start = <<dateStr>>, !.allDay = <<~Includes(dateStr, "T")>>]
  ELSE IF StartsWith(line, "DTEND")
  THEN [event EXCEPT !.end = <<extractDateFromLine(line)>>]
  ELSE IF StartsWith(line, "DESCRIPTION:")
  THEN [event EXCEPT !.description = <<Unescape(SubstringFrom(line, 12))>>]
  ELSE IF StartsWith(line, "LOCATION:")
  THEN [event EXCEPT !.location = <<Unescape(SubstringFrom(line, 9))>>]
  ELSE event

\* parseEventProperty: the event after the line has been applied to it
parseEventProperty(line, event) ==
  IF StartsWith(line, "SUMMARY:")
  THEN [event EXCEPT !.summary = <<Unescape(SubstringFrom(line, 8))>>]
  ELSE IF StartsWith(line, "DTSTART")
  THEN LET dateStr == extractDateFromLine(line)
       IN  IF dateStr # ""
           THEN [event EXCEPT !.start = <<dateStr>>,
                              !.allDay = <<~Includes(dateStr, "T")>>]
           ELSE event
  ELSE IF StartsWith(line, "DTEND")
  THEN LET dateStr == extractDateFromLine(line)
       IN  IF dateStr # "" THEN [event EXCEPT !.end = <<dateStr>>] ELSE event
  ELSE IF StartsWith(line, "DESCRIPTION:")
  THEN [event EXCEPT !.description = <<Unescape(SubstringFrom(line, 12))>>]
  ELSE IF StartsWith(line, "LOCATION:")
  THEN [event EXCEPT !.location = <<Unescape(SubstringFrom(line, 9))>>]
  ELSE event

\* a JavaScript string option is truthy when it is defined and not empty
TruthyWhenDefined(opt) == opt # << >>

Truthy(opt) == opt # << >> /\ opt[1] # ""

OneHourMs == 60 * 60 * 1000

\* `ical_${Date.now()}_${Math.random().toString(36).substr(2, 9)}`
IcalId(t, r) == [prefix |-> "ical_", t |-> t, r |-> r]

NeverNaN(date) == FALSE

\* line 105: isNaN(startDate.getTime())
IsNaNTime(date) == ~date.valid

\* createCalendarEvent: << >> for null, <<event>> otherwise; t is Date.now()
\* and r the value drawn from Math.random() for the id
createCalendarEvent(icalEvent, t, r) ==
  LET startDate == NewDate(icalEvent.start[1])
      endDate == IF Truthy(icalEvent.end) THEN NewDate(icalEvent.end[1])
                 ELSE AddMs(startDate, OneHourMs)
  IN  IF IsNaNTime(startDate) THEN << >>
      ELSE << [id |-> IcalId(t, r),
               title |-> icalEvent.summary[1],
               startDate |-> startDate,
               endDate |-> endDate,
               allDay |-> (icalEvent.allDay # << >> /\ icalEvent.allDay[1]),
               description |-> icalEvent.description,
               location |-> icalEvent.location,
               color |-> "#8b5cf6",
               source |-> <<"ical">>] >>

\* The locals of one parseICalData call: lines, the loop index i (1-based
\* here), currentEvent, inEvent and the result array events.
ParseStart(icalData) ==
  [lines |-> SplitLines(icalData), i |-> 1, currentEvent |-> EmptyICalEvent,
   inEvent |-> FALSE, events |-> << >>]

\* line 29, events.push(event), for an optional event
PushFront(events, made) == made \o events

PushEvent(events, made) == events \o made

KeptOnBegin(event) == event

\* line 24, currentEvent = {}, on BEGIN:VEVENT: whatever had been accumulated
\* is dropped
ResetOnBegin(event) == EmptyICalEvent

\* One iteration of the for loop. Every event pushed draws one random value:
\* the k-th event of a call gets rnd + k.
ParseLoopBody(p, t, rnd) ==
  LET line == Trim(p.lines[p.i])
      next == [p EXCEPT !.i = p.i + 1]
  IN  IF line = "BEGIN:VEVENT"
      THEN [next EXCEPT !.inEvent = TRUE, !.currentEvent = ResetOnBegin(p.currentEvent)]
      ELSE IF line = "END:VEVENT" /\ p.inEvent
      THEN LET made == IF Truthy(p.currentEvent.summary) /\ Truthy(p.currentEvent.start)
                       THEN createCalendarEvent(p.currentEvent, t, rnd + Len(p.events) + 1)
                       ELSE << >>
           IN  [next EXCEPT !.events = PushEvent(p.events, made),
                            !.inEvent = FALSE, !.currentEvent = EmptyICalEvent]
      ELSE IF p.inEvent
      THEN [next EXCEPT !.currentEvent = parseEventProperty(line, p.currentEvent)]
      ELSE next

\* line 39, return events: a block still open at the end of the input is dropped
ParseResultFlushing(p, t, rnd) ==
  IF p.inEvent /\ Truthy(p.currentEvent.summary) /\ Truthy(p.currentEvent.start)
  THEN p.events \o createCalendarEvent(p.currentEvent, t, rnd + Len(p.events) + 1)
  ELSE p.events

ParseResult(p, t, rnd) == p.events

RECURSIVE ParseRun(_, _, _)
ParseRun(p, t, rnd) ==
  IF p.i > Len(p.lines) THEN ParseResult(p, t, rnd) ELSE ParseRun(ParseLoopBody(p, t, rnd), t, rnd)

\* parseICalData(icalData): the events returned
parseICalData(icalData, t, rnd) == ParseRun(ParseStart(icalData), t, rnd)

(***************************************************************************)
(* Feed texts the parser is run on. A text is a sequence of blocks; a      *)
(* block is BEGIN:VEVENT, the chosen property lines and, when closed,      *)
(* END:VEVENT. Each choice carries the line and what the line denotes.     *)
(***************************************************************************)
MaxContext == 1

SummaryChoices ==
  { [line |-> "SUMMARY:Lunch", x |-> "Lunch"],
    [line |-> "SUMMARY:", x |-> ""] }

\* form: "utc" YYYYMMDDTHHMMSSZ, "date" YYYYMMDD, "local" YYYYMMDDTHHMMSS,
\* "iso" YYYY-MM-DDTHH:MM:SS, "none" no date token at all, "invalid" eight
\* digits that are no calendar date
DtStartChoices ==
  { [line |-> "DTSTART:20240315T120000Z", form |-> "utc",
     y |-> 2024, m |-> 3, d |-> 15, hh |-> 12, mi |-> 0, ss |-> 0],
    [line |-> "DTSTART:20240101", form |-> "date",
     y |-> 2024, m |-> 1, d |-> 1, hh |-> 0, mi |-> 0, ss |-> 0],
    [line |-> "DTSTART;VALUE=DATE:20240229", form |-> "date",
     y |-> 2024, m |-> 2, d |-> 29, hh |-> 0, mi |-> 0, ss |-> 0],
    [line |-> "DTSTART;TZID=/mozilla.org/20050126_1/Europe/Berlin:20240101", form |-> "date",
     y |-> 2024, m |-> 1, d |-> 1, hh |-> 0, mi |-> 0, ss |-> 0],
    [line |-> "DTSTART;TZID=Europe/Paris:20240315T120000", form |-> "local",
     y |-> 2024, m |-> 3, d |-> 15, hh |-> 12, mi |-> 0, ss |-> 0],
    [line |-> "DTSTART:TBD", form |-> "none",
     y |-> 0, m |-> 0, d |-> 0, hh |-> 0, mi |-> 0, ss |-> 0] }

DtEndChoices ==
  { [line |-> "DTEND:20240315T130000Z", form |-> "utc",
     y |-> 2024, m |-> 3, d |-> 15, hh |-> 13, mi |-> 0, ss |-> 0],
    [line |-> "DTEND:20240316", form |-> "date",
     y |-> 2024, m |-> 3, d |-> 16, hh |-> 0, mi |-> 0, ss |-> 0],
    [line |-> "DTEND;TZID=Europe/Paris:20240315T233000", form |-> "local",
     y |-> 2024, m |-> 3, d |-> 15, hh |-> 23, mi |-> 30, ss |-> 0],
    [line |-> "DTEND:2024-03-15T13:00:00", form |-> "iso",
     y |-> 2024, m |-> 3, d |-> 15, hh |-> 13, mi |-> 0, ss |-> 0],
    [line |-> "DTEND:20241345", form |-> "invalid",
     y |-> 2024, m |-> 13, d |-> 45, hh |-> 0, mi |-> 0, ss |-> 0] }

LocationChoices == { [line |-> "LOCATION:Cafe", x |-> "Cafe"] }

Opt(S) == {<< >>} \cup {<<c>> : c \in S}

\* the block under test
RichBlocks ==
  [summary : Opt(SummaryChoices), dtstart : Opt(DtStartChoices),
   dtend : Opt(DtEndChoices), location : Opt(LocationChoices), closed : BOOLEAN]

\* well-formed blocks around it
AlphaBlock ==
  [summary |-> <<[line |-> "SUMMARY:Alpha", x |-> "Alpha"]>>,
   dtstart |-> <<[line |-> "DTSTART;VALUE=DATE:20231231", form |-> "date",
                  y |-> 2023, m |-> 12, d |-> 31, hh |-> 0, mi |-> 0, ss |-> 0]>>,
   dtend |-> << >>, location |-> << >>, closed |-> TRUE]

FishBlock ==
  [summary |-> <<[line |-> "SUMMARY:Fish\\, chips", x |-> "Fish\\, chips"]>>,
   dtstart |-> <<[line |-> "DTSTART:20240102T183000", form |-> "local",
                  y |-> 2024, m |-> 1, d |-> 2, hh |-> 18, mi |-> 30, ss |-> 0]>>,
   dtend |-> <<[line |-> "DTEND:2024-01-02T20:00:00", form |-> "iso",
                y |-> 2024, m |-> 1, d |-> 2, hh |-> 20, mi |-> 0, ss |-> 0]>>,
   location |-> << >>, closed |-> TRUE]

ContextBlocks == {AlphaBlock, FishBlock}

SeqsUpTo(S, n) == UNION {[1..k -> S] : k \in 0..n}

OptLine(opt) == IF opt = << >> THEN << >> ELSE <<opt[1].line>>

BlockLines(b) ==
  <<"BEGIN:VEVENT">> \o OptLine(b.summary) \o OptLine(b.dtstart) \o OptLine(b.dtend)
    \o OptLine(b.location) \o (IF b.closed THEN <<"END:VEVENT">> ELSE << >>)

RECURSIVE FlatLines(_)
FlatLines(bs) == IF bs = << >> THEN << >> ELSE BlockLines(Head(bs)) \o FlatLines(Tail(bs))

RECURSIVE JoinLines(_, _)
JoinLines(ls, eol) ==
  IF ls = << >> THEN ""
  ELSE IF Len(ls) = 1 THEN ls[1]
  ELSE ls[1] \o eol \o JoinLines(Tail(ls), eol)

\* asFeed: wrapped in a VCALENDAR with CRLF line ends, as a server sends it;
\* otherwise the bare blocks with LF line ends
FeedText(bs, asFeed) ==
  IF asFeed
  THEN JoinLines(<<"BEGIN:VCALENDAR", "VERSION:2.0">> \o FlatLines(bs) \o <<"END:VCALENDAR", "">>, "\r\n")
  ELSE JoinLines(FlatLines(bs), "\n")

\* the inputs: Pre \o <<rich>> \o Post, with at most MaxContext blocks around
Inputs ==
  { [pre |-> pre, rich |-> r, post |-> post, asFeed |-> f] :
      pre \in SeqsUpTo(ContextBlocks, MaxContext), r \in RichBlocks,
      post \in SeqsUpTo(ContextBlocks, MaxContext), f \in BOOLEAN }

InputOk(in) == Len(in.pre) + Len(in.post) <= MaxContext

InputBlocks(in) == in.pre \o <<in.rich>> \o in.post

VARIABLES
  input,        \* the description of the text handed to parseICalData
  icalData,     \* parseICalData's argument
  ppc,          \* "idle", "loop" (inside the for loop) or "returned"
  parse,        \* the locals of the running parseICalData call
  now,          \* Date.now()
  state,        \* AppContext state: [events, icalImports]
  mounted,      \* HomeScreen shows WeeklyView
  inst,         \* how many WeeklyView instances have been mounted
  lastRefresh,  \* lastRefreshRef.current of the mounted WeeklyView
  refreshing,   \* the refreshing state of the mounted WeeklyView
  timerDue,     \* when the 10-minute interval fires next
  timerView,    \* the state captured by the interval callback's closure
  tasks,        \* the async calls suspended in await fetchICalData(...)
  loading,      \* the loading state of ICalImportModal
  rnd,          \* how many values Math.random() has handed out
  ranAt,        \* history: the last refreshAllCalendars call that was not skipped
  last,         \* history: what the last step called and dispatched
  served,       \* the events each feed's text parses to (the feeds are fixed)
  used,         \* how many times the user has pressed a button of the modal or widget
  fetch         \* the locals of a fetchICalData call followed step by step

pvars == <<input, icalData, ppc, parse>>

svars == <<now, state, mounted, inst, lastRefresh, refreshing, timerDue, timerView,
           tasks, loading, rnd, ranAt, last, served, used>>

vars == <<input, icalData, ppc, parse, now, state, mounted, inst, lastRefresh,
          refreshing, timerDue, timerView, tasks, loading, rnd, ranAt, last, served,
          used, fetch>>

\* Date.now() and the Math.random() base of the parser runs
ParseNow == 0

ParseRnd == 0

ParseInputs ==
  /\ input \in {in \in Inputs : InputOk(in)}
  /\ icalData = FeedText(InputBlocks(input), input.asFeed)
  /\ ppc = "idle"
  /\ parse = ParseStart("")

\* lines 13-17: the call splits the text and sets up its locals
ParseCall ==
  /\ ppc = "idle"
  /\ parse' = ParseStart(icalData)
  /\ ppc' = "loop"
  /\ UNCHANGED <<input, icalData>>
  /\ UNCHANGED <<svars, fetch>>

\* lines 19-37: one iteration of the loop
ParseLine ==
  /\ ppc = "loop"
  /\ parse.i <= Len(parse.lines)
  /\ parse' = ParseLoopBody(parse, ParseNow, ParseRnd)
  /\ UNCHANGED <<input, icalData, ppc>>
  /\ UNCHANGED <<svars, fetch>>

\* line 39: return events
ParseReturn ==
  /\ ppc = "loop"
  /\ parse.i > Len(parse.lines)
  /\ ppc' = "returned"
  /\ parse' = [parse EXCEPT !.events = ParseResult(parse, ParseNow, ParseRnd)]
  /\ UNCHANGED <<input, icalData>>
  /\ UNCHANGED <<svars, fetch>>

ParseNext == ParseCall \/ ParseLine \/ ParseReturn

\* no parseICalData call of the step machine is running
ParserIdle ==
  /\ input = [pre |-> << >>, rich |-> AlphaBlock, post |-> << >>, asFeed |-> FALSE]
  /\ icalData = ""
  /\ ppc = "idle"
  /\ parse = ParseStart("")

(***************************************************************************)
(* The event store: AppContext's reducer.                                  *)
(***************************************************************************)
HasSource(e, tag) == e.source = <<tag>>

\* appReducer, for the actions that touch events and icalImports
appReducer(st, action) ==
  CASE action.type = "ADD_EVENT" ->
         [st EXCEPT !.events = Append(st.events, action.payload)]
    [] action.type = "DELETE_EVENT" ->
         [st EXCEPT !.events = SelectSeq(st.events, LAMBDA e : e.id # action.payload)]
    [] action.type = "SET_EVENTS" -> [st EXCEPT !.events = action.payload]
    [] action.type = "ADD_ICAL_IMPORT" ->
         [st EXCEPT !.icalImports = Append(st.icalImports, action.payload)]
    [] action.type = "UPDATE_ICAL_IMPORT" ->
         [st EXCEPT !.icalImports =
            [k \in 1..Len(st.icalImports) |->
               IF st.icalImports[k].url = action.payload.url
               THEN action.payload ELSE st.icalImports[k]]]
    [] action.type = "REMOVE_ICAL_IMPORT" ->
         [st EXCEPT !.icalImports =
            SelectSeq(st.icalImports, LAMBDA imp : imp.url # action.payload)]
    [] action.type = "SET_ICAL_IMPORTS" -> [st EXCEPT !.icalImports = action.payload]

initialState == [events |-> << >>, icalImports |-> << >>]

\* a run of dispatch calls, in order
RECURSIVE Dispatch(_, _)
Dispatch(st, actions) ==
  IF actions = << >> THEN st
  ELSE Dispatch(appReducer(st, Head(actions)), Tail(actions))

DeleteActions(victims) ==
  [k \in 1..Len(victims) |-> [type |-> "DELETE_EVENT", payload |-> victims[k].id]]

AddActions(evs) == [k \in 1..Len(evs) |-> [type |-> "ADD_EVENT", payload |-> evs[k]]]

\* what a run of event dispatches is remembered by: the type and the id
LogOf(actions) ==
  [k \in 1..Len(actions) |->
     [type |-> actions[k].type,
      id |-> IF actions[k].type = "DELETE_EVENT" THEN actions[k].payload
             ELSE actions[k].payload.id]]

\* refreshImport, lines 597-607: the deletes, then the adds
AddsFirst(victims, evs) == AddActions(evs) \o DeleteActions(victims)

AddsOnly(victims, evs) == AddActions(evs)

RefreshDispatches(victims, evs) == DeleteActions(victims) \o AddActions(evs)

\* existingICalEvents.forEach(event => dispatch({type: 'DELETE_EVENT', payload: event.id}))
RECURSIVE DeleteEach(_, _)
DeleteEach(st, victims) ==
  IF victims = << >> THEN st
  ELSE DeleteEach(appReducer(st, [type |-> "DELETE_EVENT", payload |-> Head(victims).id]),
                  Tail(victims))

\* events.forEach(event => dispatch({type: 'ADD_EVENT', payload: event}))
RECURSIVE AddEach(_, _)
AddEach(st, evs) ==
  IF evs = << >> THEN st
  ELSE AddEach(appReducer(st, [type |-> "ADD_EVENT", payload |-> Head(evs)]), Tail(evs))

\* state.events.filter(event => event.source === 'ical')
NotLocalEventsOf(evs) == SelectSeq(evs, LAMBDA e : ~HasSource(e, "local"))

ICalEventsOf(evs) == SelectSeq(evs, LAMBDA e : HasSource(e, "ical"))

OtherEventsOf(evs) == SelectSeq(evs, LAMBDA e : ~HasSource(e, "ical"))

IdsOf(evs) == {evs[k].id : k \in 1..Len(evs)}

IdSeq(evs) == [k \in 1..Len(evs) |-> evs[k].id]

\* state.icalImports.some(imp => imp.enabled)
SomeEnabled(imports) == \E k \in 1..Len(imports) : imports[k].enabled

\* the for loop of refreshAllCalendars: the next enabled import at or after
\* position from, 0 when the loop ends
NextEnabled(imports, from) ==
  LET ks == {k \in from..Len(imports) : imports[k].enabled}
  IN  IF ks = {} THEN 0 ELSE CHOOSE k \in ks : \A j \in ks : k <= j

\* the urls of the enabled imports, in list order
EnabledUrls(imports) ==
  LET en == SelectSeq(imports, LAMBDA imp : imp.enabled)
  IN  [k \in 1..Len(en) |-> en[k].url]

\* lines 121-135: the try/catch inside the loop; whether the fetch failed or
\* not, the loop goes on with the import found next
AbortOnFailure(ok, nxt) == IF ok THEN nxt ELSE 0

ContinueAfter(ok, nxt) == nxt

(***************************************************************************)
(* The feeds of the environment and fetchICalData's request.               *)
(***************************************************************************)
UrlA == "webcal://a.example/family.ics"

UrlB == "https://b.example/school.ics"

UrlC == "https://c.example/empty.ics"

Urls == {UrlA, UrlB, UrlC}

BetaBlock ==
  [summary |-> <<[line |-> "SUMMARY:Beta", x |-> "Beta"]>>,
   dtstart |-> <<[line |-> "DTSTART:20240420", form |-> "date",
                  y |-> 2024, m |-> 4, d |-> 20, hh |-> 0, mi |-> 0, ss |-> 0]>>,
   dtend |-> << >>, location |-> << >>, closed |-> TRUE]

\* url.replace('webcal://', 'https://'): the first occurrence is replaced
HttpsUrl(url) ==
  LET at == {k \in 1..(Len(url) - 8) : SubSeq(url, k, k + 8) = "webcal://"}
  IN  IF at = {} THEN url
      ELSE LET k == CHOOSE x \in at : \A y \in at : x <= y
           IN  SubSeq(url, 1, k - 1) \o "https://" \o SubSeq(url, k + 9, Len(url))

\* what the servers answer: the feeds do not change
FeedBody(httpsUrl) ==
  IF httpsUrl = "https://a.example/family.ics" THEN FeedText(<<AlphaBlock, FishBlock>>, TRUE)
  ELSE IF httpsUrl = "https://b.example/school.ics" THEN FeedText(<<BetaBlock>>, TRUE)
  ELSE IF httpsUrl = "https://c.example/empty.ics" THEN ""
  ELSE "404"

\* what parseICalData makes of each server's answer, up to the ids; the
\* variable served holds it, the feeds being fixed
Responses ==
  [req \in {HttpsUrl(url) : url \in Urls} |-> parseICalData(FeedBody(req), 0, 0)]

\* const icalData = await fetchICalData(url); const events = parseICalData(icalData)
\* at time t with random values r + 1, r + 2, ...: the time and the random
\* values enter the result through the ids alone (line 110 of the parser)
FetchedEvents(req, t, r) ==
  [k \in 1..Len(served[req]) |-> [served[req][k] EXCEPT !.id = IcalId(t, r + k)]]

(***************************************************************************)
(* fetchICalData followed step by step.                                    *)
(***************************************************************************)
\* String.prototype.includes
IncludesText(s, t) == \E k \in 1..(Len(s) - Len(t) + 1) : SubSeq(s, k, k + Len(t) - 1) = t

DigitChar(d) == CHOOSE c \in Digits : DigitVal(c) = d

\* a number in a template literal
RECURSIVE DecimalString(_)
DecimalString(n) ==
  IF n < 10 THEN DigitChar(n) ELSE DecimalString(n \div 10) \o DigitChar(n % 10)

FetchSchemes == {"webcal://", "http://", "https://"}

FetchHosts == {"example.com", "a.example", "cal.example.org:8443"}

FetchPaths ==
  {"/cal.ics", "/u/7/basic.ics?key=webcal", "/proxy?u=webcal://example.com/cal.ics",
   "/webcal://feeds/cal.ics"}

FetchUrls == {s \o h \o q : s \in FetchSchemes, h \in FetchHosts, q \in FetchPaths}

\* what fetch(httpsUrl, ...) settles with: a response, or a transport error
FetchOutcomes ==
  {[kind |-> "response", ok |-> TRUE, status |-> 200, statusText |-> "OK"],
   [kind |-> "response", ok |-> FALSE, status |-> 404, statusText |-> "Not Found"],
   [kind |-> "response", ok |-> FALSE, status |-> 503, statusText |-> "Service Unavailable"],
   [kind |-> "error", message |-> "Network request failed"],
   [kind |-> "error", message |-> "getaddrinfo ENOTFOUND"]}

\* what response.text() settles with: the body, or a transport error
TextOutcomes ==
  {[kind |-> "text", data |-> ""],
   [kind |-> "text", data |-> "BEGIN:VCALENDAR\r\nEND:VCALENDAR\r\n"],
   [kind |-> "error", message |-> "Network request failed"]}

NoOutcome == [kind |-> "none"]

\* line 142
HttpErrorMessage(response) ==
  "HTTP error! status: " \o DecimalString(response.status) \o " - " \o response.statusText

\* line 151, for an error that is an Error
WrapUnknown(message) == "Failed to fetch calendar: Unknown error"

WrapError(message) == "Failed to fetch calendar: " \o message

FetchIdle(url) ==
  [pc |-> "idle", url |-> url, requests |-> << >>, response |-> NoOutcome,
   text |-> NoOutcome, data |-> << >>, error |-> << >>]

\* lines 126-139: the url is rewritten and the request is issued
FetchCall ==
  /\ fetch.pc = "idle"
  /\ fetch' = [fetch EXCEPT !.pc = "fetch", !.requests = Append(@, HttpsUrl(fetch.url))]

\* lines 133-143, 149-152: await fetch(...) settles
FetchAnswered ==
  /\ fetch.pc = "fetch"
  /\ \E out \in FetchOutcomes :
       fetch' =
         IF out.kind = "error"
         THEN [fetch EXCEPT !.pc = "rejected", !.response = out,
                            !.error = <<WrapError(out.message)>>]
         ELSE IF ~out.ok
         THEN [fetch EXCEPT !.pc = "rejected", !.response = out,
                            !.error = <<WrapError(HttpErrorMessage(out))>>]
         ELSE [fetch EXCEPT !.pc = "text", !.response = out]

\* lines 145-152: await response.text() settles
FetchTextRead ==
  /\ fetch.pc = "text"
  /\ \E out \in TextOutcomes :
       fetch' =
         IF out.kind = "error"
         THEN [fetch EXCEPT !.pc = "rejected", !.text = out,
                            !.error = <<WrapError(out.message)>>]
         ELSE [fetch EXCEPT !.pc = "resolved", !.text = out, !.data = <<out.data>>]

(***************************************************************************)
(* What AsyncStorage holds when the app starts (loadData).                 *)
(***************************************************************************)
StoredEvent(id, title, source) ==
  [id |-> id, title |-> title, startDate |-> MakeDate(2023, 12, 24, 0, 0, 0),
   endDate |-> MakeDate(2023, 12, 24, 1, 0, 0), allDay |-> FALSE,
   description |-> << >>, location |-> << >>, color |-> "#6366f1", source |-> source]

\* `${Date.now()}${random}` of QuickAddWidget.generateId
LocalId(t, r) == [prefix |-> "", t |-> t, r |-> r]

\* lines 542-547, with the name field left empty: `Calendar ${length + 1}`
NewImport(url, length) ==
  [url |-> url, name |-> <<"Calendar ", length + 1>>, color |-> "#6366f1", enabled |-> TRUE]

StoredStates ==
  { initialState,
    [events |-> << StoredEvent(LocalId(0, 0), "Legacy", << >>),
                   StoredEvent(LocalId(0, -1), "Shared", <<"imported">>),
                   [StoredEvent(IcalId(0, 0), "Alpha", <<"ical">>) EXCEPT !.color = "#8b5cf6"] >>,
     icalImports |-> << NewImport(UrlA, 0) >>],
    [events |-> << StoredEvent(LocalId(0, 0), "Legacy", << >>),
                   [StoredEvent(IcalId(0, 0), "Alpha", <<"ical">>) EXCEPT !.color = "#8b5cf6"],
                   [StoredEvent(IcalId(0, -1), "Beta", <<"ical">>) EXCEPT !.color = "#8b5cf6"] >>,
     icalImports |-> << NewImport(UrlA, 0), [NewImport(UrlB, 1) EXCEPT !.enabled = FALSE] >>] }

(***************************************************************************)
(* WeeklyView and ICalImportModal.                                         *)
(***************************************************************************)
\* line 98
minRefreshInterval == 30000

\* line 161
TimerInterval == 10 * 60 * 1000

\* Date.now() when the app starts: later than any throttle window after 0
StartTime == TimerInterval

\* how many times the interval may fire after the last instant
MaxTicks == 1

\* how many times HomeScreen may show the weekly view
MaxMounts == 2

\* how many values Math.random() may hand out
MaxRnd == 4

\* how many buttons of ICalImportModal and QuickAddWidget the user may press
MaxUser == 1

\* how many async calls may be suspended in a fetch at once
MaxInFlight == 2

\* the instants at which something happens, besides those the timer fires at
Instants ==
  {StartTime, StartTime + minRefreshInterval - 1, StartTime + minRefreshInterval}

\* the history record of a step that called and dispatched nothing
Quiet ==
  [op |-> "", invoked |-> FALSE, ran |-> FALSE, done |-> FALSE, kind |-> "",
   trigger |-> "", prevRan |-> FALSE, gap |-> 0, K |-> 0, fetches |-> 0, oks |-> 0,
   overlap |-> FALSE, deletes |-> << >>, adds |-> << >>, startOthers |-> << >>,
   othersBefore |-> << >>, enabled |-> << >>, reqs |-> << >>, outcomes |-> << >>,
   log |-> << >>, cycleAdds |-> << >>, alerts |-> << >>]

\* the history record of a step named op taken from the current state
Step(op) == [Quiet EXCEPT !.op = op, !.othersBefore = OtherEventsOf(state.events)]

NeverRan == [valid |-> FALSE, inst |-> 0, t |-> 0]

ThrottleOrBusy(t, lastRef) == ~(t - lastRef < minRefreshInterval) /\ ~refreshing

\* line 100: timeSinceLastRefresh < minRefreshInterval skips the refresh
ThrottlePasses(t, lastRef) == ~(t - lastRef < minRefreshInterval)

\* another async call is in flight while this one runs
MarkOverlap(ts) == [k \in 1..Len(ts) |-> [ts[k] EXCEPT !.overlap = TRUE]]

NewTask(kind, trig, i, view, idx, url) ==
  [kind |-> kind, trigger |-> trig, inst |-> i, view |-> view, idx |-> idx,
   url |-> url, req |-> HttpsUrl(url), total |-> 0, fetches |-> 0, oks |-> 0,
   overlap |-> tasks # << >>, startOthers |-> OtherEventsOf(state.events),
   reqs |-> << >>, outcomes |-> << >>, added |-> << >>]

\* refreshAllCalendars (lines 94-145) up to its first await, called at time t
\* by the closure that captured view, with lastRef in lastRefreshRef.current
RefreshAllCalendars(view, trig, lastRef, i, t) ==
  LET called == [Step(trig) EXCEPT !.invoked = TRUE, !.trigger = trig,
                                   !.prevRan = ranAt.valid, !.gap = t - ranAt.t]
  IN
  IF ~ThrottlePasses(t, lastRef)
  THEN /\ last' = called
       /\ UNCHANGED <<state, tasks, ranAt, lastRefresh, refreshing>>
  ELSE LET existingICalEvents == ICalEventsOf(view.events)
           k == NextEnabled(view.icalImports, 1)
           started == [called EXCEPT !.ran = TRUE, !.kind = "all",
                                     !.overlap = tasks # << >>,
                                     !.deletes = IdSeq(existingICalEvents),
                                     !.startOthers = OtherEventsOf(state.events),
                                     !.enabled = EnabledUrls(view.icalImports),
                                     !.log = LogOf(DeleteActions(existingICalEvents))]
       IN  /\ lastRefresh' = t
           /\ ranAt' = [valid |-> TRUE, inst |-> i, t |-> t]
           /\ state' = DeleteEach(state, existingICalEvents)
           /\ IF k = 0
              THEN /\ refreshing' = FALSE
                   /\ tasks' = MarkOverlap(tasks)
                   /\ last' = [started EXCEPT !.done = TRUE]
              ELSE /\ refreshing' = TRUE
                   /\ tasks' = Append(MarkOverlap(tasks),
                                      NewTask("all", trig, i, view, k, view.icalImports[k].url))
                   /\ last' = started

\* the effect of lines 156-164 runs again when state.icalImports changes
TimerRestart(view) ==
  IF mounted THEN timerView' = view /\ timerDue' = now + TimerInterval
  ELSE UNCHANGED <<timerView, timerDue>>

\* the app has started and loadData has put st in the store; HomeScreen shows
\* its 'calendar' view, so no WeeklyView is mounted
SyncInit(st) ==
  /\ now = StartTime
  /\ state = st
  /\ mounted = FALSE
  /\ inst = 0
  /\ lastRefresh = 0
  /\ refreshing = FALSE
  /\ timerDue = 0
  /\ timerView = initialState
  /\ tasks = << >>
  /\ loading = FALSE
  /\ rnd = 0
  /\ ranAt = NeverRan
  /\ last = Quiet
  /\ served = Responses
  /\ used = 0

Init ==
  /\ ParserIdle
  /\ fetch = FetchIdle("")
  /\ \E st \in StoredStates : SyncInit(st)

\* time passes
AdvanceTime ==
  /\ \E t \in Instants :
       /\ t > now
       /\ \A u \in Instants : u > now => t <= u
       /\ now' = t
  /\ last' = Step("advance")
  /\ UNCHANGED <<state, mounted, inst, lastRefresh, refreshing, timerDue, timerView,
                 tasks, loading, rnd, ranAt>>
  /\ UNCHANGED <<pvars, fetch, served, used>>

\* HomeScreen switches to the weekly view: a new WeeklyView instance, whose
\* effects run after its first render (lines 148-153, then 156-164)
Mount ==
  /\ ~mounted
  /\ Len(tasks) < MaxInFlight
  /\ inst < MaxMounts
  /\ mounted' = TRUE
  /\ inst' = inst + 1
  /\ IF SomeEnabled(state.icalImports)
     THEN RefreshAllCalendars(state, "mount", 0, inst + 1, now)
     ELSE /\ lastRefresh' = 0
          /\ refreshing' = FALSE
          /\ last' = Step("mount")
          /\ UNCHANGED <<state, tasks, ranAt>>
  /\ timerView' = state
  /\ timerDue' = now + TimerInterval
  /\ UNCHANGED <<now, loading, rnd>>
  /\ UNCHANGED <<pvars, fetch, served, used>>

\* HomeScreen switches to another view: the interval is cleared (line 163)
Unmount ==
  /\ mounted
  /\ mounted' = FALSE
  /\ lastRefresh' = 0
  /\ refreshing' = FALSE
  /\ timerView' = initialState
  /\ timerDue' = 0
  /\ last' = Step("unmount")
  /\ UNCHANGED <<now, state, inst, tasks, loading, rnd, ranAt>>
  /\ UNCHANGED <<pvars, fetch, served, used>>

\* navigateWeek / goToCurrentWeek: currentWeek changes, the effect of lines
\* 148-153 runs with the closure of the new render
WeekChange ==
  /\ mounted
  /\ Len(tasks) < MaxInFlight
  /\ IF SomeEnabled(state.icalImports)
     THEN RefreshAllCalendars(state, "week", lastRefresh, inst, now)
     ELSE /\ last' = Step("week")
          /\ UNCHANGED <<state, tasks, ranAt, lastRefresh, refreshing>>
  /\ UNCHANGED <<now, mounted, inst, timerDue, timerView, loading, rnd>>
  /\ UNCHANGED <<pvars, fetch, served, used>>

\* RefreshControl onRefresh={refreshAllCalendars} (line 249)
PullToRefresh ==
  /\ mounted
  /\ Len(tasks) < MaxInFlight
  /\ RefreshAllCalendars(state, "pull", lastRefresh, inst, now)
  /\ UNCHANGED <<now, mounted, inst, timerDue, timerView, loading, rnd>>
  /\ UNCHANGED <<pvars, fetch, served, used>>

\* the interval fires (lines 157-161): its callback is the one created by the
\* render in which the effect last ran, and sees that render's state
TimerTick ==
  /\ mounted
  /\ Len(tasks) < MaxInFlight
  /\ timerDue <= StartTime + minRefreshInterval + MaxTicks * TimerInterval
  /\ LET t == IF now > timerDue THEN now ELSE timerDue
     IN  /\ now' = t
         /\ timerDue' = timerDue + TimerInterval
         /\ IF SomeEnabled(timerView.icalImports)
            THEN RefreshAllCalendars(timerView, "timer", lastRefresh, inst, t)
            ELSE /\ last' = Step("timer")
                 /\ UNCHANGED <<state, tasks, ranAt, lastRefresh, refreshing>>
  /\ UNCHANGED <<mounted, inst, timerView, loading, rnd>>
  /\ UNCHANGED <<pvars, fetch, served, used>>

RemoveAt(seq, k) == SubSeq(seq, 1, k - 1) \o SubSeq(seq, k + 1, Len(seq))

SettleRecord(task, k) ==
  [Step("settle") EXCEPT !.kind = task.kind, !.trigger = task.trigger,
                         !.overlap = task.overlap, !.startOthers = task.startOthers,
                         !.enabled = IF task.kind = "all"
                                     THEN EnabledUrls(task.view.icalImports) ELSE << >>,
                         !.cycleAdds = task.added]

\* the awaited fetch of a refreshAllCalendars cycle settles: lines 124-137,
\* then either the next enabled import of the closure's list or lines 139-144
SettleAll(k, ok) ==
  LET task == tasks[k]
      events == IF ok THEN FetchedEvents(task.req, now, rnd) ELSE << >>
      nxt == ContinueAfter(ok, NextEnabled(task.view.icalImports, task.idx + 1))
      after == [task EXCEPT !.fetches = @ + 1, !.oks = @ + (IF ok THEN 1 ELSE 0),
                            !.total = @ + Len(events),
                            !.reqs = Append(@, task.req), !.outcomes = Append(@, ok),
                            !.added = @ \o IdSeq(events)]
      rec == [SettleRecord(task, k) EXCEPT !.K = after.total, !.fetches = after.fetches,
                                           !.oks = after.oks, !.adds = IdSeq(events),
                                           !.reqs = after.reqs, !.outcomes = after.outcomes,
                                           !.log = LogOf(AddActions(events))]
  IN  /\ task.kind = "all"
      /\ state' = AddEach(state, events)
      /\ rnd' = rnd + Len(events)
      /\ IF nxt = 0
         THEN /\ tasks' = RemoveAt(tasks, k)
              /\ refreshing' = IF mounted /\ inst = task.inst THEN FALSE ELSE refreshing
              /\ last' = [rec EXCEPT !.done = TRUE]
         ELSE /\ tasks' = [tasks EXCEPT ![k] = [after EXCEPT !.idx = nxt,
                              !.url = task.view.icalImports[nxt].url,
                              !.req = HttpsUrl(task.view.icalImports[nxt].url)]]
              /\ refreshing' = refreshing
              /\ last' = rec
      /\ UNCHANGED <<timerDue, timerView, loading>>

DeletedBeforeFetch(ok, view) == ICalEventsOf(view.events)

\* refreshImport, lines 595-598: existingICalEvents is computed after the
\* awaited fetch and parse, so a rejected fetch reaches no DELETE_EVENT
DeletedAfterFetch(ok, view) == IF ok THEN ICalEventsOf(view.events) ELSE << >>

\* the awaited fetch of refreshImport settles: lines 595-615
SettleOne(k, ok) ==
  LET task == tasks[k]
      events == IF ok THEN FetchedEvents(task.req, now, rnd) ELSE << >>
      existingICalEvents == DeletedAfterFetch(ok, task.view)
  IN  /\ task.kind = "one"
      /\ state' = Dispatch(state, RefreshDispatches(existingICalEvents, events))
      /\ rnd' = rnd + Len(events)
      /\ tasks' = RemoveAt(tasks, k)
      /\ loading' = FALSE
      /\ last' = [SettleRecord(task, k) EXCEPT !.done = TRUE, !.K = Len(events),
                     !.fetches = 1, !.oks = IF ok THEN 1 ELSE 0,
                     !.deletes = IdSeq(existingICalEvents), !.adds = IdSeq(events),
                     !.reqs = <<task.req>>, !.outcomes = <<ok>>,
                     !.log = LogOf(RefreshDispatches(existingICalEvents, events)),
                     !.alerts = IF ok THEN <<"Success">> ELSE <<"Error">>]
      /\ UNCHANGED <<timerDue, timerView, refreshing>>

RegisteredWhenNonEmpty(ok, events) == ok /\ events # << >>

\* handleImport, lines 537-549: after a fetch that succeeded the import is
\* dispatched whatever events.length is; zero events only raise the warning
ImportRegistered(ok, events) == ok

\* the awaited fetch of handleImport settles: lines 534-574.  The dispatches
\* run outside an event handler: the timer effect runs again either after
\* ADD_ICAL_IMPORT alone or after the whole batch, by the renderer in use
SettleImport(k, ok) ==
  LET task == tasks[k]
      events == IF ok THEN FetchedEvents(task.req, now, rnd) ELSE << >>
      st1 == IF ImportRegistered(ok, events)
             THEN appReducer(state, [type |-> "ADD_ICAL_IMPORT",
                                     payload |-> NewImport(task.url, Len(task.view.icalImports))])
             ELSE state
      st2 == AddEach(st1, events)
  IN  /\ task.kind = "import"
      /\ state' = st2
      /\ rnd' = rnd + Len(events)
      /\ tasks' = RemoveAt(tasks, k)
      /\ loading' = FALSE
      /\ IF ok THEN \E view \in {st1, st2} : TimerRestart(view)
         ELSE UNCHANGED <<timerDue, timerView>>
      /\ last' = [SettleRecord(task, k) EXCEPT !.done = TRUE, !.K = Len(events),
                     !.fetches = 1, !.oks = IF ok THEN 1 ELSE 0, !.adds = IdSeq(events),
                     !.reqs = <<task.req>>, !.outcomes = <<ok>>,
                     !.log = LogOf(AddActions(events)),
                     !.alerts = IF ~ok THEN <<"Error">>
                                ELSE IF Len(events) = 0 THEN <<"Warning", "Success">>
                                ELSE <<"Success">>]
      /\ UNCHANGED refreshing

\* a pending request is answered, or fails (!response.ok or a network error)
FetchSettles ==
  /\ \E k \in 1..Len(tasks), ok \in BOOLEAN :
       /\ ok => rnd + Len(served[tasks[k].req]) <= MaxRnd
       /\ SettleAll(k, ok) \/ SettleOne(k, ok) \/ SettleImport(k, ok)
  /\ UNCHANGED <<now, mounted, inst, lastRefresh, ranAt>>
  /\ UNCHANGED <<pvars, fetch, served, used>>

UrlInputs == Urls \cup {"", "ftp://c.example/old.ics"}

\* new URL(url).protocol is one of the three accepted schemes
validateUrl(url) ==
  StartsWith(url, "webcal:") \/ StartsWith(url, "http:") \/ StartsWith(url, "https:")

\* the Import button of ICalImportModal (disabled while loading): lines 515-531
HandleImport ==
  /\ used < MaxUser
  /\ used' = used + 1
  /\ ~loading
  /\ Len(tasks) < MaxInFlight
  /\ \E url \in UrlInputs :
       IF Trim(url) = "" \/ ~validateUrl(url)
       THEN /\ last' = [Step("import") EXCEPT !.alerts = <<"Error">>]
            /\ UNCHANGED <<tasks, loading>>
       ELSE /\ loading' = TRUE
            /\ tasks' = Append(MarkOverlap(tasks),
                               NewTask("import", "import", inst, state, 0, Trim(url)))
            /\ last' = [Step("import") EXCEPT !.invoked = TRUE, !.kind = "import"]
  /\ UNCHANGED <<now, state, mounted, inst, lastRefresh, refreshing, timerDue, timerView,
                 rnd, ranAt>>
  /\ UNCHANGED <<pvars, fetch, served>>

\* the refresh button of a listed import (disabled while loading): lines 587-594
RefreshImport ==
  /\ used < MaxUser
  /\ used' = used + 1
  /\ ~loading
  /\ Len(tasks) < MaxInFlight
  /\ \E n \in 1..Len(state.icalImports) :
       LET importUrl == state.icalImports[n].url
       IN  /\ loading' = TRUE
           /\ tasks' = Append(MarkOverlap(tasks),
                              NewTask("one", "button", inst, state, 0, importUrl))
           /\ last' = [Step("refreshImport") EXCEPT !.invoked = TRUE, !.kind = "one"]
  /\ UNCHANGED <<now, state, mounted, inst, lastRefresh, refreshing, timerDue, timerView,
                 rnd, ranAt>>
  /\ UNCHANGED <<pvars, fetch, served>>

\* the switch of a listed import: lines 577-585
ToggleImport ==
  /\ used < MaxUser
  /\ used' = used + 1
  /\ \E n \in 1..Len(state.icalImports) :
       LET importUrl == state.icalImports[n].url
           first == CHOOSE j \in 1..Len(state.icalImports) :
                      /\ state.icalImports[j].url = importUrl
                      /\ \A h \in 1..(j - 1) : state.icalImports[h].url # importUrl
           import_ == state.icalImports[first]
           st == appReducer(state, [type |-> "UPDATE_ICAL_IMPORT",
                                    payload |-> [import_ EXCEPT !.enabled = ~import_.enabled]])
       IN  /\ state' = st
           /\ TimerRestart(st)
  /\ last' = Step("toggle")
  /\ UNCHANGED <<now, mounted, inst, lastRefresh, refreshing, tasks, loading, rnd, ranAt>>
  /\ UNCHANGED <<pvars, fetch, served>>

\* Remove, confirmed in the alert: lines 618-633
RemoveImport ==
  /\ used < MaxUser
  /\ used' = used + 1
  /\ \E n \in 1..Len(state.icalImports) :
       LET st == appReducer(state, [type |-> "REMOVE_ICAL_IMPORT",
                                    payload |-> state.icalImports[n].url])
       IN  /\ state' = st
           /\ TimerRestart(st)
  /\ last' = Step("remove")
  /\ UNCHANGED <<now, mounted, inst, lastRefresh, refreshing, tasks, loading, rnd, ranAt>>
  /\ UNCHANGED <<pvars, fetch, served>>

TitleInputs == {"Dentist", "  "}

\* QuickAddWidget.handleAddEvent with the time field empty and allDay off
QuickAdd ==
  /\ used < MaxUser
  /\ used' = used + 1
  /\ \E title \in TitleInputs :
       IF Trim(title) = ""
       THEN UNCHANGED <<state, tasks>>
       ELSE LET n == Len(SelectSeq(state.events, LAMBDA e : HasSource(e, "local")))
                newEvent == [id |-> LocalId(now, n + 1), title |-> Trim(title),
                             startDate |-> MakeDate(2024, 3, 15, 0, 0, 0),
                             endDate |-> MakeDate(2024, 3, 15, 0, 0, 0),
                             allDay |-> FALSE, description |-> << >>, location |-> << >>,
                             color |-> "#6366f1", source |-> <<"local">>]
            IN  /\ state' = appReducer(state, [type |-> "ADD_EVENT", payload |-> newEvent])
                /\ tasks' = MarkOverlap(tasks)
  /\ last' = Step("quickAdd")
  /\ UNCHANGED <<now, mounted, inst, lastRefresh, refreshing, timerDue, timerView,
                 loading, rnd, ranAt>>
  /\ UNCHANGED <<pvars, fetch, served>>

Next ==
  \/ AdvanceTime
  \/ Mount
  \/ Unmount
  \/ WeekChange
  \/ PullToRefresh
  \/ TimerTick
  \/ FetchSettles
  \/ HandleImport
  \/ RefreshImport
  \/ ToggleImport
  \/ RemoveImport
  \/ QuickAdd

Spec == Init /\ [][Next]_vars

ParseInit ==
  /\ ParseInputs
  /\ SyncInit(initialState)
  /\ fetch = FetchIdle("")

FetchInit ==
  /\ ParserIdle
  /\ SyncInit(initialState)
  /\ \E url \in FetchUrls : fetch = FetchIdle(url)

FetchNext ==
  /\ FetchCall \/ FetchAnswered \/ FetchTextRead
  /\ UNCHANGED <<pvars, svars>>

FetchSpec == FetchInit /\ [][FetchNext]_vars

ParseSpec == ParseInit /\ [][ParseNext]_vars

(***************************************************************************)
(* Texts given line by line. A text is a preface, the line that opens the  *)
(* block under test, the block's property lines (a head and a body), the   *)
(* line that closes it, and a tail. Each property line carries what it     *)
(* denotes: x the text of a text property, val the date string a date      *)
(* line holds ("" when it holds none), timed whether that string has a     *)
(* time of day, date the instant it denotes read as UTC.                   *)
(***************************************************************************)
MaxBody == 2

TextLine(kind, line, x) ==
  [kind |-> kind, line |-> line, x |-> x, val |-> "", timed |-> FALSE, date |-> InvalidDate]

DateLine(kind, line, val, timed, date) ==
  [kind |-> kind, line |-> line, x |-> "", val |-> val, timed |-> timed, date |-> date]

SummaryLines ==
  { TextLine("summary", "SUMMARY:Lunch", "Lunch"),
    TextLine("summary", "SUMMARY:Fish\\, chips\\; peas \\\\ salt", "Fish, chips; peas \\ salt"),
    TextLine("summary", "SUMMARY:", "") }

StartLines ==
  { DateLine("start", "DTSTART:20240315T120000", "2024-03-15T12:00:00Z", TRUE,
             MakeDate(2024, 3, 15, 12, 0, 0)),
    DateLine("start", "DTSTART;TZID=Europe/Paris:20240704T093000", "2024-07-04T09:30:00Z", TRUE,
             MakeDate(2024, 7, 4, 9, 30, 0)),
    DateLine("start", "DTSTART:20240229", "2024-02-29", FALSE, MakeDate(2024, 2, 29, 0, 0, 0)),
    DateLine("start", "DTSTART:2024-03-16T08:30:00", "2024-03-16T08:30:00Z", TRUE,
             MakeDate(2024, 3, 16, 8, 30, 0)),
    DateLine("start", "DTSTART:20241345", "2024-13-45", FALSE, InvalidDate),
    DateLine("start", "DTSTART:TBD", "", FALSE, InvalidDate),
    DateLine("start", "DTSTART:202403151200", "", FALSE, InvalidDate),
    DateLine("start", "DTSTART:20240315T1200", "", FALSE, InvalidDate),
    DateLine("start", "DTSTART:20240315T120000Z", "", FALSE, InvalidDate) }

EndLines ==
  { DateLine("end", "DTEND:20240316T140000", "2024-03-16T14:00:00Z", TRUE,
             MakeDate(2024, 3, 16, 14, 0, 0)),
    DateLine("end", "DTEND:20240317", "2024-03-17", FALSE, MakeDate(2024, 3, 17, 0, 0, 0)),
    DateLine("end", "DTEND:soon", "", FALSE, InvalidDate) }

OtherLines ==
  { TextLine("description", "DESCRIPTION:Bring cake", "Bring cake"),
    TextLine("description", "DESCRIPTION:a\\, b", "a, b"),
    TextLine("location", "LOCATION:Cafe", "Cafe"),
    TextLine("location", "LOCATION:Park", "Park") }

PropertyLines == SummaryLines \cup StartLines \cup EndLines \cup OtherLines

HeadLines ==
  << TextLine("summary", "SUMMARY:Head", "Head"),
     DateLine("start", "DTSTART:20240101", "2024-01-01", FALSE, MakeDate(2024, 1, 1, 0, 0, 0)) >>

\* before the block: nothing, lines outside any block, or a block left open
StrayPreface == <<"SUMMARY:Stray", "DTSTART:20200101", "LOCATION:Nowhere", "END:VEVENT">>

OpenPreface ==
  <<"BEGIN:VEVENT", "SUMMARY:Old", "DTSTART:20230704T090000", "DTEND:20230705",
    "DESCRIPTION:old text", "LOCATION:Old town">>

Prefaces == {<< >>, StrayPreface, OpenPreface}

\* the markers as written, with white space around them, and lines that
\* only begin like them
BeginLines == {"BEGIN:VEVENT", "  BEGIN:VEVENT\r", "BEGIN:VEVENTS"}

EndMarkLines == {"END:VEVENT", "\tEND:VEVENT \r", "END:VEVENTS"}

NextBlock == <<"BEGIN:VEVENT", "SUMMARY:Next", "DTSTART:20240202", "END:VEVENT">>

Tails == {<< >>, NextBlock}

\* what stands around the property lines
Frames ==
  [preface : Prefaces, begin : BeginLines, end : EndMarkLines, tail : Tails]

\* in how many ways a frame departs from the plain block
Departures(f) ==
  (IF f.preface # << >> THEN 1 ELSE 0) + (IF f.begin # "BEGIN:VEVENT" THEN 1 ELSE 0)
    + (IF f.end # "END:VEVENT" THEN 1 ELSE 0) + (IF f.tail # << >> THEN 1 ELSE 0)

FramesWithin == [d \in 0..4 |-> {f \in Frames : Departures(f) <= d}]

\* the longer the body, the fewer the departures from the plain block: they
\* number n together at most
LineInputs(n) ==
  UNION { { [preface |-> f.preface, begin |-> f.begin, head |-> h, body |-> body,
             end |-> f.end, tail |-> f.tail] :
              f \in FramesWithin[IF n - Len(body) > 4 THEN 4 ELSE n - Len(body)],
              h \in {<< >>, HeadLines} } :
          body \in SeqsUpTo(PropertyLines, n) }

PropsOf(in) == in.head \o in.body

LinesOfProps(props) == [k \in 1..Len(props) |-> props[k].line]

LinesOf(in) ==
  in.preface \o <<in.begin>> \o LinesOfProps(PropsOf(in)) \o <<in.end>> \o in.tail

LineInit ==
  /\ input \in LineInputs(MaxBody)
  /\ icalData = JoinLines(LinesOf(input), "\n")
  /\ ppc = "idle"
  /\ parse = ParseStart("")
  /\ SyncInit(initialState)
  /\ fetch = FetchIdle("")

LineSpec == LineInit /\ [][ParseNext]_vars


(***************************************************************************)
(* Parser claims, checked under ParseSpec.                                 *)
(***************************************************************************)
Returned == ppc = "returned"

Rich == input.rich

HasSummary == Rich.summary # << >> /\ Rich.summary[1].x # ""

HasStart(forms) == Rich.dtstart # << >> /\ Rich.dtstart[1].form \in forms

HasEnd(forms) == Rich.dtend # << >> /\ Rich.dtend[1].form \in forms

Denoted(c) == MakeDate(c.y, c.m, c.d, c.hh, c.mi, c.ss)

\* the events of the result that carry the rich block's summary
RichEvents == {k \in 1..Len(parse.events) : parse.events[k].title = Rich.summary[1].x}

NoId(e) == [f \in DOMAIN e \ {"id"} |-> e[f]]

NoIds(es) == [k \in 1..Len(es) |-> NoId(es[k])]

ParseOf(bs) == parseICalData(FeedText(bs, input.asFeed), ParseNow, ParseRnd)

RECURSIVE EachAlone(_)
EachAlone(bs) ==
  IF bs = << >> THEN << >>
  ELSE NoIds(parseICalData(FeedText(<<Head(bs)>>, FALSE), ParseNow, ParseRnd))
         \o EachAlone(Tail(bs))

\* C1: a text that is one closed block with a non-empty SUMMARY:x and a
\* DTSTART:YYYYMMDDTHHMMSSZ yields exactly one event, with title x, allDay
\* false and the start the DTSTART value denotes.
C1_UtcBlockYieldsOneEvent ==
  (Returned /\ input.pre = << >> /\ input.post = << >> /\ ~input.asFeed
     /\ Rich.closed /\ HasSummary /\ HasStart({"utc"}))
  => /\ Len(parse.events) = 1
     /\ parse.events[1].title = Rich.summary[1].x
     /\ parse.events[1].allDay = FALSE
     /\ parse.events[1].startDate = Denoted(Rich.dtstart[1])

\* C5: a closed block with a non-empty SUMMARY whose DTSTART value is eight
\* digits of a valid date, with or without parameters, yields an all-day event
\* that starts on that date.
C5_DateOnlyStartIsAllDay ==
  (Returned /\ Rich.closed /\ HasSummary /\ HasStart({"date"}))
  => \E k \in RichEvents :
        /\ parse.events[k].allDay = TRUE
        /\ parse.events[k].startDate = Denoted(Rich.dtstart[1])

\* C6: an event's endDate is the timestamp of its block's DTEND when the block
\* has a DTEND in a supported format (YYYYMMDD, YYYYMMDDTHHMMSSZ, the ISO
\* fallback), and startDate plus one hour when the block has no DTEND.
C6_EndDateRule ==
  (Returned /\ Rich.closed /\ HasSummary /\ Rich.dtstart # << >>)
  => \A k \in RichEvents :
        /\ HasEnd({"date", "utc", "iso"})
             => parse.events[k].endDate = Denoted(Rich.dtend[1])
        /\ Rich.dtend = << >>
             => parse.events[k].endDate = AddMs(parse.events[k].startDate, OneHourMs)

\* C7: a closed block without SUMMARY, with an empty summary, without DTSTART
\* or with a DTSTART that holds no date contributes nothing: the result is the
\* result of the text without that block, whatever else the block holds.
Malformed == Rich.summary = << >> \/ Rich.summary[1].x = "" \/ Rich.dtstart = << >>
               \/ Rich.dtstart[1].form = "none"

C7_MalformedBlockContributesNothing ==
  (Returned /\ Rich.closed /\ Malformed)
  => parse.events = ParseOf(input.pre \o input.post)

C7_Witness ==
  /\ Returned /\ Rich.closed
  /\ Rich.summary # << >> /\ Rich.summary[1].x = "" /\ HasStart({"date"})
  /\ Rich.dtend # << >> /\ Rich.location # << >>
  /\ input.pre # << >> /\ Len(parse.events) = 1

\* C8: the result lists the events in the order in which their blocks close:
\* it is the concatenation, block by block, of what each block yields alone.
C8_OutputInBlockOrder ==
  Returned => NoIds(parse.events) = EachAlone(InputBlocks(input))

C8_Witness ==
  /\ Returned /\ Len(parse.events) = 2
  /\ parse.events[1].title = "Lunch" /\ parse.events[2].title = "Alpha"
  /\ parse.events[1].startDate.day > parse.events[2].startDate.day

\* C9: a final block that is never closed contributes nothing, the call still
\* returns, and the events of the earlier blocks are returned.
C9_UnterminatedFinalBlock ==
  (Returned /\ ~Rich.closed /\ input.post = << >>)
  => parse.events = ParseOf(input.pre)

C9_Witness ==
  /\ Returned /\ ~Rich.closed /\ input.post = << >>
  /\ HasSummary /\ HasStart({"date", "local"})
  /\ input.pre # << >> /\ Len(parse.events) = 1

\* C20: no returned event has an invalid endDate, and the event of a block
\* whose DTEND value is eight digits that are no calendar date (20241345)
\* ends one hour after its start.
C20_UnparseableEndFallsBack ==
  Returned =>
    /\ \A k \in 1..Len(parse.events) : parse.events[k].endDate.valid
    /\ (Rich.closed /\ HasEnd({"invalid"}))
         => \A k \in RichEvents :
               parse.events[k].endDate = AddMs(parse.events[k].startDate, OneHourMs)

(***************************************************************************)
(* Parser claims, checked under LineSpec.                                  *)
(***************************************************************************)
\* the block under test is opened and closed by the markers as written
PlainBlock == input.begin = "BEGIN:VEVENT" /\ input.end = "END:VEVENT"

\* the property lines of the block that set the field: every line of a text
\* kind, and the date lines that hold a date string
Setting(props, kind) ==
  {k \in 1..Len(props) : props[k].kind = kind /\ (kind \in {"start", "end"} => props[k].val # "")}

Latest(S) == CHOOSE k \in S : \A j \in S : j <= k

\* the last line of the block that sets the field, << >> when none does
Kept(in, kind) ==
  LET S == Setting(PropsOf(in), kind)
  IN  IF S = {} THEN << >> ELSE <<PropsOf(in)[Latest(S)]>>

\* what parseICalData returns for the tail alone
TailEvents == parseICalData(JoinLines(input.tail, "\n"), ParseNow, ParseRnd)

\* C21: every returned event has a valid startDate; a block whose start
\* string is no calendar date (DTSTART:20241345) yields no event and the call
\* returns all the same, with the events of the blocks after it.
C21_InvalidStartDiscarded ==
  Returned =>
    /\ \A k \in 1..Len(parse.events) : parse.events[k].startDate.valid
    /\ (PlainBlock /\ Kept(input, "start") # << >> /\ ~Kept(input, "start")[1].date.valid)
         => parse.events = TailEvents

C21_Witness ==
  /\ Returned /\ PlainBlock
  /\ Kept(input, "start") # << >> /\ Kept(input, "start")[1].line = "DTSTART:20241345"
  /\ Kept(input, "summary") # << >> /\ Kept(input, "summary")[1].x = "Head"
  /\ input.tail = NextBlock
  /\ Len(parse.events) = 1 /\ parse.events[1].title = "Next"

\* the loop has just handled a line that reads exactly marker
JustRead(marker) ==
  ppc = "loop" /\ parse.i > 1 /\ parse.lines[parse.i - 1] = marker

WithoutPreface == JoinLines(LinesOf([input EXCEPT !.preface = << >>]), "\n")

\* C22: right after a BEGIN:VEVENT line the accumulator is empty and the
\* parser is inside a block, right after an END:VEVENT line it is empty and
\* the parser is outside; so a block left open before the block under test
\* is lost and changes nothing: the result is that of the text without it,
\* and an event has a location, a description or an end of its own block only.
C22_BeginResetsAccumulator ==
  /\ JustRead("BEGIN:VEVENT") => parse.inEvent /\ parse.currentEvent = EmptyICalEvent
  /\ JustRead("END:VEVENT") => ~parse.inEvent /\ parse.currentEvent = EmptyICalEvent
  /\ (Returned /\ input.preface = OpenPreface /\ PlainBlock)
       => /\ parse.events = parseICalData(WithoutPreface, ParseNow, ParseRnd)
          /\ \A k \in 1..Len(parse.events) :
               /\ parse.events[k].title # "Old"
               /\ Kept(input, "location") = << >> => parse.events[k].location = << >>
               /\ Kept(input, "description") = << >> => parse.events[k].description = << >>
               /\ Kept(input, "end") = << >>
                    => parse.events[k].endDate = AddMs(parse.events[k].startDate, OneHourMs)

C22_Witness ==
  /\ Returned /\ input.preface = OpenPreface /\ PlainBlock
  /\ input.head = HeadLines /\ input.body = << >>
  /\ Len(parse.events) = 1 /\ parse.events[1].title = "Head"
  /\ parse.events[1].location = << >> /\ parse.events[1].allDay

\* C26: a block is entered only by a line that reads exactly BEGIN:VEVENT and
\* closed only by a line that reads exactly END:VEVENT (white space or a
\* carriage return around the marker makes it another line); the lines of a
\* block never entered or never closed yield no event, and property lines or
\* an END:VEVENT outside a block change nothing.
C26_ExactMarkers ==
  Returned =>
    /\ (input.begin # "BEGIN:VEVENT" /\ input.preface # OpenPreface) => parse.events = TailEvents
    /\ (input.end # "END:VEVENT" /\ input.tail = << >>) => parse.events = << >>
    /\ input.preface = StrayPreface
         => parse.events = parseICalData(WithoutPreface, ParseNow, ParseRnd)

\* the loop has just handled the k-th property line of the block under test
JustReadProp(k) ==
  /\ ppc = "loop" /\ input.begin = "BEGIN:VEVENT"
  /\ k \in 1..Len(PropsOf(input))
  /\ parse.i - 1 = Len(input.preface) + 1 + k

\* the date string of the last of the first k property lines that sets the
\* field, << >> when none does
KeptUpTo(k, kind) ==
  LET S == Setting(SubSeq(PropsOf(input), 1, k), kind)
  IN  IF S = {} THEN << >> ELSE <<PropsOf(input)[Latest(S)].val>>

KeptText(kind) == IF Kept(input, kind) = << >> THEN << >> ELSE <<Kept(input, kind)[1].x>>

\* the block under test is complete: a summary that is not empty and a start
\* that is a calendar date
Complete ==
  /\ KeptText("summary") # << >> /\ KeptText("summary") # <<"">>
  /\ Kept(input, "start") # << >> /\ Kept(input, "start")[1].date.valid

\* C28: every returned event has source 'ical', color '#8b5cf6' and a title
\* that is not empty; the event of a block has the block's summary with the
\* escapes of comma, semicolon and backslash resolved as its title, allDay
\* true exactly when its start string has no time of day, and the
\* description and location written in that block, or none.
C28_EventFields ==
  Returned =>
    /\ \A k \in 1..Len(parse.events) :
         /\ parse.events[k].source = <<"ical">>
         /\ parse.events[k].color = "#8b5cf6"
         /\ parse.events[k].title # ""
    /\ (PlainBlock /\ Complete)
         => /\ Len(parse.events) >= 1
            /\ <<parse.events[1].title>> = KeptText("summary")
            /\ parse.events[1].allDay = ~Kept(input, "start")[1].timed
            /\ parse.events[1].description = KeptText("description")
            /\ parse.events[1].location = KeptText("location")
    /\ (PlainBlock /\ ~Complete) => parse.events = TailEvents

C28_Witness ==
  /\ Returned /\ PlainBlock /\ Complete
  /\ Len(parse.events) = 1
  /\ parse.events[1].title = "Fish, chips; peas \\ salt"
  /\ parse.events[1].allDay /\ parse.events[1].description = << >>

\* the text of the last of the first k property lines that sets the field
KeptTextUpTo(k, kind) ==
  LET S == Setting(SubSeq(PropsOf(input), 1, k), kind)
  IN  IF S = {} THEN << >> ELSE <<PropsOf(input)[Latest(S)].x>>

\* allDay after the first k property lines: that of the start line kept
KeptAllDayUpTo(k) ==
  LET S == Setting(SubSeq(PropsOf(input), 1, k), "start")
  IN  IF S = {} THEN << >> ELSE <<~PropsOf(input)[Latest(S)].timed>>

\* C29: after each property line of a block the accumulator holds, for
\* SUMMARY, DESCRIPTION and LOCATION, the text of the last such line so far,
\* and for DTSTART and DTEND the date of the last such line that holds one (a
\* later line without a date changes nothing); allDay goes with the start
\* that is kept.
C29_RepeatedPropertyLines ==
  \A k \in 1..Len(PropsOf(input)) :
    JustReadProp(k) =>
      parse.currentEvent = [summary |-> KeptTextUpTo(k, "summary"),
                            description |-> KeptTextUpTo(k, "description"),
                            location |-> KeptTextUpTo(k, "location"),
                            start |-> KeptUpTo(k, "start"),
                            end |-> KeptUpTo(k, "end"),
                            allDay |-> KeptAllDayUpTo(k)]

\* a timed start replaced the head's all-day start, and a later DTSTART
\* without a date left it in place
C29_Witness ==
  /\ JustReadProp(4)
  /\ PropsOf(input)[3].kind = "start" /\ PropsOf(input)[3].timed
  /\ PropsOf(input)[4].line = "DTSTART:TBD"
  /\ parse.currentEvent.start = <<PropsOf(input)[3].val>>
  /\ parse.currentEvent.allDay = <<FALSE>>
  /\ parse.currentEvent.summary = <<"Head">>

(***************************************************************************)
(* The sync policy: claims checked under Spec.                             *)
(***************************************************************************)
TriggerOps == {"mount", "week", "pull", "timer"}

\* the last step was a trigger calling refreshAllCalendars
Triggered == last.op \in TriggerOps /\ last.invoked

\* the last step ended a cycle that nothing else ran alongside
CycleDone(kinds) == last.op = "settle" /\ last.done /\ last.kind \in kinds /\ ~last.overlap

\* C2: after one completed reconciliation (refreshImport, or
\* refreshAllCalendars with a single enabled feed) whose parse result has K
\* events, the store holds exactly K events with source 'ical' and the same
\* other-origin events it held when the reconciliation started.
C2_ReconciliationCount ==
  (CycleDone({"one", "all"}) /\ last.fetches = 1 /\ last.oks = 1)
    => /\ Len(ICalEventsOf(state.events)) = last.K
       /\ OtherEventsOf(state.events) = last.startOthers

\* C3: after each completed refresh cycle, whatever trigger started it, the
\* number of source 'ical' events in the store is the number of events parsed
\* in that cycle; and the deletes a cycle starts with remove every 'ical'
\* event an earlier cycle or import inserted.
C3_NoDuplicateAccumulation ==
  /\ CycleDone({"all"}) => Len(ICalEventsOf(state.events)) = last.K
  /\ (Triggered /\ last.ran /\ ~last.overlap) => ICalEventsOf(state.events) = << >>

\* C4: a reconciliation trigger issued less than 30 seconds after a trigger
\* that ran a cycle is dropped: it runs no cycle of its own.
C4_Throttle ==
  (Triggered /\ last.prevRan /\ last.gap < minRefreshInterval) => ~last.ran

\* a step of the sync policy: a refreshAllCalendars call, or the continuation
\* of a refreshAllCalendars or refreshImport cycle
SyncStep ==
  last.op \in TriggerOps \/ (last.op = "settle" /\ last.kind \in {"all", "one"})

\* C10: no step of refreshAllCalendars or refreshImport changes the events
\* whose source is not 'ical' (their fields and their order stay as they
\* were), and no DELETE_EVENT it dispatches carries the id of such an event.
C10_FrameOfSyncPolicy ==
  SyncStep =>
    /\ OtherEventsOf(state.events) = last.othersBefore
    /\ \A k \in 1..Len(last.deletes) : last.deletes[k] \notin IdsOf(last.othersBefore)

\* a cycle has just deleted 'ical' events from a store that also holds a
\* local event, an 'imported' one and one without source
C10_Witness ==
  /\ Triggered /\ last.ran /\ Len(last.deletes) > 0
  /\ \E k \in 1..Len(state.events) : HasSource(state.events[k], "local")
  /\ \E k \in 1..Len(state.events) : HasSource(state.events[k], "imported")
  /\ \E k \in 1..Len(state.events) : state.events[k].source = << >>

\* the last step continued a refreshAllCalendars cycle after a fetch settled
SettledAll == last.op = "settle" /\ last.kind = "all"

\* how many events the answered requests of a cycle parse to
RECURSIVE ParsedCount(_, _)
ParsedCount(reqs, outcomes) ==
  IF reqs = << >> THEN 0
  ELSE (IF Head(outcomes) THEN Len(served[Head(reqs)]) ELSE 0)
       + ParsedCount(Tail(reqs), Tail(outcomes))

\* C11: in a refreshAllCalendars cycle a failed fetch ends that feed's turn
\* only: the requests of the cycle follow the enabled imports of its list in
\* order, the cycle is over exactly when the last of them has settled,
\* whatever the results, and the events of every answered request are
\* inserted.
C11_PerFeedIsolation ==
  SettledAll =>
    /\ Len(last.reqs) <= Len(last.enabled)
    /\ \A k \in 1..Len(last.reqs) : last.reqs[k] = HttpsUrl(last.enabled[k])
    /\ last.done <=> Len(last.reqs) = Len(last.enabled)
    /\ last.K = ParsedCount(last.reqs, last.outcomes)
    /\ \A k \in 1..Len(last.adds) : last.adds[k] \in IdsOf(state.events)
    /\ last.outcomes[Len(last.outcomes)] => Len(last.adds) = Len(served[last.reqs[Len(last.reqs)]])

\* a cycle over two enabled feeds has ended: the first fetch failed, the
\* second was answered and its events are in the store
C11_Witness ==
  /\ SettledAll /\ last.done
  /\ last.outcomes = <<FALSE, TRUE>>
  /\ Len(last.adds) > 0
  /\ \A k \in 1..Len(last.adds) : last.adds[k] \in IdsOf(state.events)

\* the ids a run of dispatches of one type carries
LoggedIds(log, type) == {log[k].id : k \in {j \in 1..Len(log) : log[j].type = type}}

\* C12: within one reconciliation cycle (refreshAllCalendars or
\* refreshImport) every DELETE_EVENT dispatch comes before every ADD_EVENT
\* dispatch of the cycle, and no id the cycle inserts is among those it
\* deletes.
C12_DeleteThenInsert ==
  SyncStep =>
    /\ \A i, j \in 1..Len(last.log) :
         (last.log[i].type = "ADD_EVENT" /\ last.log[j].type = "DELETE_EVENT") => j < i
    /\ LoggedIds(last.log, "DELETE_EVENT") # {} => last.cycleAdds = << >>
    /\ LoggedIds(last.log, "DELETE_EVENT")
         \cap (LoggedIds(last.log, "ADD_EVENT")
               \cup {last.cycleAdds[k] : k \in 1..Len(last.cycleAdds)}) = {}

\* a refreshImport has just deleted stored 'ical' events and inserted the
\* freshly parsed ones
C12_Witness ==
  /\ last.op = "settle" /\ last.kind = "one"
  /\ LoggedIds(last.log, "DELETE_EVENT") # {}
  /\ LoggedIds(last.log, "ADD_EVENT") # {}

(***************************************************************************)
(* fetchICalData: claims checked under FetchSpec.                          *)
(***************************************************************************)
\* the url with a leading webcal:// replaced by https://
LeadingSchemeRewritten(url) ==
  IF StartsWith(url, "webcal://") THEN "https://" \o SubstringFrom(url, 9) ELSE url

\* C13: fetchICalData requests exactly the url with a leading webcal://
\* replaced by https://; a url that starts with http:// or https:// is
\* requested unchanged, whatever its path or query contains.
C13_RequestedUrl ==
  fetch.requests # << >> => fetch.requests[1] = LeadingSchemeRewritten(fetch.url)

\* C14: one request per call and no more; a response that is not ok rejects
\* the call with a message carrying the status and the status text; a
\* transport failure rejects it with a message carrying the transport
\* error's message; a body is returned only for an ok response, and it is
\* the body read.
C14_FailureContract ==
  /\ Len(fetch.requests) = (IF fetch.pc = "idle" THEN 0 ELSE 1)
  /\ (fetch.pc = "rejected" /\ fetch.response.kind = "response" /\ fetch.text.kind = "none")
       => /\ ~fetch.response.ok
          /\ IncludesText(fetch.error[1], DecimalString(fetch.response.status))
          /\ IncludesText(fetch.error[1], fetch.response.statusText)
  /\ (fetch.pc = "rejected" /\ fetch.response.kind = "error")
       => IncludesText(fetch.error[1], fetch.response.message)
  /\ (fetch.pc = "rejected" /\ fetch.text.kind = "error")
       => IncludesText(fetch.error[1], fetch.text.message)
  /\ fetch.pc = "rejected" => fetch.data = << >> /\ Len(fetch.error) = 1
  /\ fetch.data # << >>
       => /\ fetch.pc = "resolved" /\ fetch.error = << >>
          /\ fetch.response.kind = "response" /\ fetch.response.ok
          /\ fetch.data = <<fetch.text.data>>
  /\ fetch.pc = "resolved" => fetch.data # << >>

\* a call was rejected for a 404 answer
C14_Witness ==
  /\ fetch.pc = "rejected"
  /\ fetch.response.kind = "response" /\ fetch.response.status = 404
  /\ fetch.error = <<"Failed to fetch calendar: HTTP error! status: 404 - Not Found">>

(***************************************************************************)
(* ICalImportModal: claims checked under Spec.                             *)
(***************************************************************************)
\* the last step continued a refreshImport whose fetch was answered
RefreshedOne == last.op = "settle" /\ last.kind = "one" /\ last.oks = 1

C17_ThrottleOutlivesView ==
  (last.op = "mount" /\ last.invoked /\ last.prevRan /\ inst >= 2
     /\ last.gap < minRefreshInterval) => ~last.ran

\* a handleImport or refreshImport whose fetchICalData rejected has settled
ManualFailed == last.op = "settle" /\ last.kind \in {"import", "one"} /\ last.oks = 0

\* C18: the step in which the fetch of handleImport or refreshImport rejects
\* leaves the store as it was (no import registered, no event added or
\* deleted), shows the error alert and sets the loading flag back to false.
C18_ManualFailureLeavesState ==
  [][ManualFailed' => /\ state' = state
                      /\ last'.log = << >>
                      /\ last'.alerts = <<"Error">>
                      /\ loading /\ ~loading']_vars

\* a refreshImport failed while the store held 'ical' events
C18_Witness ==
  /\ ManualFailed /\ last.kind = "one" /\ ~loading
  /\ Len(ICalEventsOf(state.events)) = 2
  /\ last.alerts = <<"Error">>

\* texts without a well-formed block: the empty text, a calendar without
\* events, a block without DTSTART, a block without SUMMARY, an unclosed block
NoBlockTexts ==
  { "", FeedText(<< >>, TRUE),
    "BEGIN:VEVENT\nSUMMARY:Lunch\nEND:VEVENT",
    "BEGIN:VEVENT\nDTSTART:20240101\nEND:VEVENT\n",
    "BEGIN:VEVENT\nSUMMARY:Lunch\nDTSTART:20240101" }

\* a handleImport whose fetch succeeded and whose text held no event has settled
ImportedNothing ==
  last.op = "settle" /\ last.kind = "import" /\ last.oks = 1 /\ last.K = 0

\* C19: parseICalData returns the empty sequence for the empty text and for
\* texts with no well-formed block, and the step in which handleImport gets
\* such a result appends the feed to icalImports, warns, and adds no event.
C19_EmptyResultIsValid ==
  [][ImportedNothing' =>
       /\ \A text \in NoBlockTexts \cup {FeedBody(last'.reqs[1])} :
            parseICalData(text, now, rnd) = << >>
       /\ state'.events = state.events
       /\ Len(state'.icalImports) = Len(state.icalImports) + 1
       /\ SubSeq(state'.icalImports, 1, Len(state.icalImports)) = state.icalImports
       /\ HttpsUrl(state'.icalImports[Len(state'.icalImports)].url) = last'.reqs[1]
       /\ state'.icalImports[Len(state'.icalImports)].enabled
       /\ last'.log = << >>
       /\ last'.alerts = <<"Warning", "Success">>
       /\ ~loading']_vars

\* the empty feed was imported into a store that already held events
C19_Witness ==
  /\ ImportedNothing
  /\ last.reqs = <<HttpsUrl(UrlC)>>
  /\ state.icalImports[Len(state.icalImports)].url = UrlC
  /\ Len(state.events) >= 2
  /\ "Warning" \in {last.alerts[k] : k \in 1..Len(last.alerts)}

(***************************************************************************)
(* Concurrency of the sync policy: claims checked under Spec.              *)
(***************************************************************************)
\* the refreshAllCalendars cycles whose fetch is pending
CyclesInFlight == {k \in 1..Len(tasks) : tasks[k].kind = "all"}

C24_SingleWriter == Len(tasks) <= 1

\* the titles of the events that the answered requests of a cycle parse to,
\* request by request
RECURSIVE ParsedTitles(_, _)
ParsedTitles(reqs, outcomes) ==
  IF reqs = << >> THEN << >>
  ELSE (IF Head(outcomes) THEN [k \in 1..Len(served[Head(reqs)]) |-> served[Head(reqs)][k].title]
        ELSE << >>)
       \o ParsedTitles(Tail(reqs), Tail(outcomes))

TitleSeq(evs) == [k \in 1..Len(evs) |-> evs[k].title]

\* C25: when a refreshAllCalendars cycle that nothing ran alongside has
\* completed, the 'ical' events of the store are exactly the events it parsed
\* from the feeds whose fetch succeeded, in feed order (none at all if every
\* fetch failed), and its last step left the other events as they were.
C25_BatchOutcome ==
  CycleDone({"all"}) =>
    /\ IdSeq(ICalEventsOf(state.events)) = last.cycleAdds \o last.adds
    /\ TitleSeq(ICalEventsOf(state.events)) = ParsedTitles(last.reqs, last.outcomes)
    /\ OtherEventsOf(state.events) = last.othersBefore

\* the titles of the events the feed at url serves
TitlesOf(url) == {served[HttpsUrl(url)][k].title : k \in 1..Len(served[HttpsUrl(url)])}

\* e is an event of a feed that is registered in imports and enabled there
OfEnabledFeed(e, imports) ==
  \E k \in 1..Len(imports) : imports[k].enabled /\ e.title \in TitlesOf(imports[k].url)

\* C30: a refreshAllCalendars cycle requests enabled feeds only, and when it
\* has completed (the enabled feeds being those it started with) every 'ical'
\* event left in the store is an event of a feed that is registered and
\* enabled; toggling or removing a feed leaves the events as they were.
C30_DisabledAndRemovedFeeds ==
  [][/\ SettledAll' => \A k \in 1..Len(last'.reqs) :
                          \E j \in 1..Len(last'.enabled) : last'.reqs[k] = HttpsUrl(last'.enabled[j])
     /\ (CycleDone({"all"})' /\ last'.enabled = EnabledUrls(state'.icalImports)) =>
          \A k \in 1..Len(state'.events) :
             HasSource(state'.events[k], "ical") => OfEnabledFeed(state'.events[k], state'.icalImports)
     /\ last'.op \in {"toggle", "remove"} => state'.events = state.events]_vars
====
